---- MODULE Spec2Model ----
(***************************************************************************)
(* Filter expression language of o2ims: lexical scanner, recursive descent *)
(* parser and canonical serializer.                                        *)
(*                                                                         *)
(* A text is a sequence of characters, each character a one-character      *)
(* string.  One call of Parser.Parse is a parseTask that walks through     *)
(* the program positions of parseExpr / parseTerm, one action per step.    *)
(***************************************************************************)
EXTENDS Integers, Sequences, FiniteSets, TLC

\* ------------------------------------------------------------------------
\* Characters
\* ------------------------------------------------------------------------

Lower == << "a","b","c","d","e","f","g","h","i","j","k","l","m",
            "n","o","p","q","r","s","t","u","v","w","x","y","z" >>

Upper == << "A","B","C","D","E","F","G","H","I","J","K","L","M",
            "N","O","P","Q","R","S","T","U","V","W","X","Y","Z" >>

Range(s) == { s[i] : i \in DOMAIN s }

\* The rune 0: what readRune returns at the end of the buffer, and also the
\* value of a NUL character that is part of the source.
NUL == "NUL"

IsLetter(r) == r \in Range(Lower) \cup Range(Upper)

IsDigit(r) == r \in {"0","1","2","3","4","5","6","7","8","9"}

IsSpace(r) == r \in {" ", "\t", "\n"}

\* strings.ToLower, one character
ToLowerRune(r) ==
    IF r \in Range(Upper)
    THEN Lower[CHOOSE i \in DOMAIN Upper : Upper[i] = r]
    ELSE r

\* strings.ToLower
ToLower(s) == [ i \in DOMAIN s |-> ToLowerRune(s[i]) ]

\* ------------------------------------------------------------------------
\* Symbols, tokens, errors
\* ------------------------------------------------------------------------

exprSymbolEnd              == "End"
exprSymbolIdentifier       == "Identifier"
exprSymbolComma            == "Comma"
exprSymbolSlash            == "Slash"
exprSymbolLeftParenthesis  == "LeftParenthesis"
exprSymbolRightParenthesis == "RightParenthesis"
exprSymbolSemicolon        == "Semicolon"
exprSymbolString           == "String"

exprDefaultMode == "default"
exprValuesMode  == "values"

exprToken(symbol, txt) == [ Symbol |-> symbol, Text |-> txt ]

\* the nil *exprToken
NilToken == [ Symbol |-> "Nil", Text |-> << >> ]

\* exprToken.String
TokenString(token) ==
    IF token.Symbol = exprSymbolIdentifier
    THEN << "Identifier", ":" >> \o token.Text
    ELSE << token.Symbol >>

\* An error value: the message format, the text it carries and what was
\* expected.  NoError is the nil error.
Error(msg, txt, expecting) == [ msg |-> msg, text |-> txt, expecting |-> expecting ]

NoError == Error("", << >>, "")

SourceIsMandatory == Error("source is mandatory", << >>, "")

UnexpectedCharacter(r) == Error("unexpected character", << r >>, "start of identifier")

UnknownEscape(r) == Error("unknown escape sequence", << "~", r >>, "")

UnexpectedToken(txt, expecting) == Error("unexpected token", txt, expecting)

UnknownOperator(name) == Error("unknown operator", name, "")

\* ------------------------------------------------------------------------
\* Lexer
\* ------------------------------------------------------------------------

\* readRune with a buffer that starts again from its first rune once its end
\* has been read
readRune_Rewind(src, p) ==
    IF p > Len(src)
    THEN [ r |-> NUL, pos |-> 1, ok |-> FALSE ]
    ELSE [ r |-> src[p], pos |-> p + 1, ok |-> TRUE ]

\* exprLexer.readRune at offset p of src: the rune and the next offset.  At
\* the end of the buffer the rune is 0 and the offset stays.
readRune(src, p) ==
    IF p > Len(src)
    THEN [ r |-> NUL, pos |-> p, ok |-> FALSE ]
    ELSE [ r |-> src[p], pos |-> p + 1, ok |-> TRUE ]

\* exprLexer.unreadRune after the read rd: steps back over the rune when the
\* read delivered one, and only logs an error when the read was at the end.
unreadRune(rd) == IF rd.ok THEN rd.pos - 1 ELSE rd.pos

\* result of one FetchToken call
\* what FetchToken returns from an iteration of its loop: the token, the
\* error, the offset of the buffer, and the readRune call of the iteration
Fetched(token, err, p) ==
    [ token |-> token, err |-> err, pos |-> p, reads |-> 1 ]

\* what FetchToken returns when one more iteration of its loop, with its
\* readRune call, has gone before
AfterRead(f) == [ f EXCEPT !.reads = @ + 1 ]

\* Punctuation of the filter dialect that the selector dialect lacks.
FilterPunctuation(r) ==
    CASE r = "(" -> exprSymbolLeftParenthesis
      [] r = ")" -> exprSymbolRightParenthesis
      [] r = ";" -> exprSymbolSemicolon
      [] OTHER   -> "none"

\* an escape table that takes a ~ at the end of the text for a ~, and lets
\* the loop go on
Unescape_TrailingTilde(r) ==
    CASE r = "0" -> "~"
      [] r = "1" -> "/"
      [] r = "a" -> ","
      [] r = NUL -> "~"
      [] OTHER   -> "none"

\* an escape table that takes any other character after ~ as it is
Unescape_Verbatim(r) ==
    CASE r = "0" -> "~"
      [] r = "1" -> "/"
      [] r = "a" -> ","
      [] OTHER   -> r

\* The escape table of state S2: the decoded character, or "none".
Unescape(r) ==
    CASE r = "0" -> "~"
      [] r = "1" -> "/"
      [] r = "a" -> ","
      [] OTHER   -> "none"

\* The identifier automaton of FetchToken (default mode), from offset p in
\* the given state with the given lexeme buffer.
RECURSIVE FetchDefault(_, _, _, _)
FetchDefault(src, p, state, lexeme) ==
    LET rd == readRune(src, p)
        r  == rd.r
    IN  CASE state = "S0" ->
               IF IsSpace(r) THEN AfterRead(FetchDefault(src, rd.pos, "S0", lexeme))
               ELSE IF IsLetter(r) \/ r = "_"
                    THEN AfterRead(FetchDefault(src, rd.pos, "S1", lexeme \o << r >>))
               ELSE IF r = ","
                    THEN Fetched(exprToken(exprSymbolComma, << "," >>), NoError, rd.pos)
               ELSE IF r = "/"
                    THEN Fetched(exprToken(exprSymbolSlash, << "/" >>), NoError, rd.pos)
               ELSE IF FilterPunctuation(r) # "none"
                    THEN Fetched(exprToken(FilterPunctuation(r), << r >>), NoError, rd.pos)
               ELSE IF r = "~" THEN AfterRead(FetchDefault(src, rd.pos, "S2", lexeme))
               ELSE IF r = NUL
                    THEN Fetched(exprToken(exprSymbolEnd, << >>), NoError, rd.pos)
               ELSE Fetched(NilToken, UnexpectedCharacter(r), rd.pos)
          [] state = "S1" ->
               IF IsLetter(r) \/ IsDigit(r) \/ r = "_"
               THEN AfterRead(FetchDefault(src, rd.pos, "S1", lexeme \o << r >>))
               ELSE IF r = "~" THEN AfterRead(FetchDefault(src, rd.pos, "S2", lexeme))
               ELSE Fetched(exprToken(exprSymbolIdentifier, lexeme), NoError,
                            unreadRune(rd))
          [] state = "S2" ->
               IF Unescape(r) # "none"
               THEN AfterRead(FetchDefault(src, rd.pos, "S0",
                                           lexeme \o << Unescape(r) >>))
               ELSE Fetched(NilToken, UnknownEscape(r), rd.pos)

UnterminatedString == Error("unterminated string", << >>, "")

UnexpectedValueCharacter(r) == Error("unexpected character", << r >>, "value")

\* The string literal of values mode, after its opening quote: characters up
\* to the next quote that is not doubled; a doubled quote is one quote.
RECURSIVE FetchString(_, _, _)
FetchString(src, p, lexeme) ==
    LET rd == readRune(src, p)
        nx == readRune(src, rd.pos)
    IN  IF ~rd.ok THEN Fetched(NilToken, UnterminatedString, rd.pos)
        ELSE IF rd.r = "'"
             THEN IF nx.ok /\ nx.r = "'"
                  THEN AfterRead(AfterRead(FetchString(src, nx.pos,
                                                       lexeme \o << "'" >>)))
                  ELSE AfterRead(Fetched(exprToken(exprSymbolString, lexeme),
                                         NoError, rd.pos))
        ELSE AfterRead(FetchString(src, rd.pos, lexeme \o << rd.r >>))

\* FetchToken in values mode.
RECURSIVE FetchValues(_, _)
FetchValues(src, p) ==
    LET rd == readRune(src, p)
        r  == rd.r
    IN  IF IsSpace(r) THEN AfterRead(FetchValues(src, rd.pos))
        ELSE IF r = "'" THEN AfterRead(FetchString(src, rd.pos, << >>))
        ELSE IF r = ","
             THEN Fetched(exprToken(exprSymbolComma, << "," >>), NoError, rd.pos)
        ELSE IF r = ")"
             THEN Fetched(exprToken(exprSymbolRightParenthesis, << ")" >>), NoError, rd.pos)
        ELSE IF r = NUL
             THEN Fetched(exprToken(exprSymbolEnd, << >>), NoError, rd.pos)
        ELSE Fetched(NilToken, UnexpectedValueCharacter(r), rd.pos)

\* exprLexer.FetchToken: the next token of src from offset p in the mode.
FetchToken(src, p, mode) ==
    IF mode = exprValuesMode
    THEN FetchValues(src, p)
    ELSE FetchDefault(src, p, "S0", << >>)

\* ------------------------------------------------------------------------
\* Abstract syntax
\* ------------------------------------------------------------------------

Cont  == "Cont"
Eq    == "Eq"
Gt    == "Gt"
Gte   == "Gte"
In    == "In"
Lt    == "Lt"
Lte   == "Lte"
Ncont == "Ncont"
Neq   == "Neq"
Nin   == "Nin"

Term(operator, path, values) ==
    [ Operator |-> operator, Path |-> path, Values |-> values ]

\* a non-nil *Expr
Expr(terms) == [ nil |-> FALSE, Terms |-> terms ]

\* the nil *Expr
NilExpr == [ nil |-> TRUE, Terms |-> << >> ]

\* ------------------------------------------------------------------------
\* Parser: the parseTask and its steps
\* ------------------------------------------------------------------------

\* The state of one Parse call: the source, the lexer (offset and mode), the
\* lookahead token, the position in parseExpr / parseTerm, the locals of
\* these two, the results of Parse and the panic in flight.  `fetched` is
\* the history of the tokens the lexer has delivered, with the mode in which
\* each was fetched.
NewTask(src) ==
    [ text     |-> src,
      pos      |-> 1,
      mode     |-> exprDefaultMode,
      token    |-> NilToken,
      pc       |-> "Parse",
      terms    |-> << >>,
      operator |-> "",
      path     |-> << >>,
      values   |-> << >>,
      expr     |-> NilExpr,
      err      |-> NoError,
      fault    |-> NoError,
      fetched  |-> << >> ]

Panicked(t) == t.fault # NoError

panic(t, e) == [ t EXCEPT !.fault = e ]

\* fetchToken, given what FetchToken returned: an error is a panic, a token
\* becomes the current token
tokenFetched(t, f) ==
    IF f.err # NoError
    THEN panic([ t EXCEPT !.pos = f.pos ], f.err)
    ELSE [ t EXCEPT !.pos = f.pos,
                    !.token = f.token,
                    !.fetched = Append(@, [ token |-> f.token, mode |-> t.mode ]) ]

\* parseTask.fetchToken (a task that has panicked runs no further)
fetchToken(t) ==
    IF Panicked(t) THEN t ELSE tokenFetched(t, FetchToken(t.text, t.pos, t.mode))

\* parseTask.ensureToken
ensureToken(t) == IF t.token = NilToken THEN fetchToken(t) ELSE t

\* parseTask.checkToken, on a task whose token is ensured
checkToken(t, symbol) == t.token.Symbol = symbol

\* the names consumeToken gives the symbols
ExpectedName(symbol) ==
    CASE symbol = exprSymbolEnd              -> "end of input"
      [] symbol = exprSymbolLeftParenthesis  -> "left parenthesis"
      [] symbol = exprSymbolRightParenthesis -> "right parenthesis"
      [] symbol = exprSymbolIdentifier       -> "identifier"
      [] symbol = exprSymbolComma            -> "comma"
      [] symbol = exprSymbolSlash            -> "slash"
      [] symbol = exprSymbolSemicolon        -> "semicolon"
      [] symbol = exprSymbolString           -> "string"

\* consumeToken, on a task whose token is ensured
tokenConsumed(t, symbol) ==
    IF Panicked(t) THEN t
    ELSE IF t.token.Symbol # symbol
         THEN panic(t, UnexpectedToken(t.token.Text, ExpectedName(symbol)))
         ELSE [ t EXCEPT !.token = NilToken ]

\* parseTask.consumeToken
consumeToken(t, symbol) == tokenConsumed(ensureToken(t), symbol)

\* The operator table of parseOperator: the operator of a lowercase name,
\* or "" when the name is not in the table.
OperatorOf(name) ==
    CASE name = << "c","o","n","t" >>     -> Cont
      [] name = << "e","q" >>             -> Eq
      [] name = << "g","t" >>             -> Gt
      [] name = << "g","t","e" >>         -> Gte
      [] name = << "i","n" >>             -> In
      [] name = << "l","t" >>             -> Lt
      [] name = << "l","t","e" >>         -> Gt
      [] name = << "n","c","o","n","t" >> -> Ncont
      [] name = << "n","e","q" >>         -> Neq
      [] name = << "n","i","n" >>         -> Nin
      [] OTHER                            -> ""

\* recover that also returns the terms parsed before the panic
recover_PartialExpr(t) ==
    IF Panicked(t)
    THEN [ t EXCEPT !.err = t.fault, !.fault = NoError, !.pc = "done",
                    !.expr = Expr(t.terms) ]
    ELSE t

\* The deferred function of Parse: a panic becomes the returned error, and
\* the Expr stays as it was (nil).
recover(t) ==
    IF Panicked(t)
    THEN [ t EXCEPT !.err = t.fault, !.fault = NoError, !.pc = "done" ]
    ELSE t

\* the task goes on at position l, unless it has panicked
goto(t, l) == IF Panicked(t) THEN t ELSE [ t EXCEPT !.pc = l ]

\* stepParse with a lexer that takes an empty source
stepParse_NoCheck(t) == [ t EXCEPT !.pc = "parseTerm" ]

\* Parser.Parse up to the call of parseExpr: builds the lexer.
stepParse(t) ==
    IF Len(t.text) = 0
    THEN [ t EXCEPT !.err = SourceIsMandatory, !.pc = "done" ]
    ELSE [ t EXCEPT !.pc = "parseTerm" ]

\* parseTerm: consumeToken(exprSymbolLeftParenthesis)
stepParseTerm(t) ==
    recover(goto(consumeToken(t, exprSymbolLeftParenthesis), "parseOperator"))

\* operatorParsed without the strings.ToLower
operatorParsed_CaseSensitive(t, name) ==
    IF Panicked(t) THEN t
    ELSE IF OperatorOf(name) = "" THEN panic(t, UnknownOperator(name))
    ELSE [ t EXCEPT !.operator = OperatorOf(name), !.pc = "consumeComma" ]

\* operatorParsed with the lowercase name in the error
operatorParsed_LowerName(t, name) ==
    IF Panicked(t) THEN t
    ELSE IF OperatorOf(ToLower(name)) = "" THEN panic(t, UnknownOperator(ToLower(name)))
    ELSE [ t EXCEPT !.operator = OperatorOf(ToLower(name)), !.pc = "consumeComma" ]

\* parseOperator after parseIdentifier has returned name
operatorParsed(t, name) ==
    IF Panicked(t) THEN t
    ELSE IF OperatorOf(ToLower(name)) = "" THEN panic(t, UnknownOperator(name))
    ELSE [ t EXCEPT !.operator = OperatorOf(ToLower(name)), !.pc = "consumeComma" ]

\* parseOperator on a task whose token is ensured: parseIdentifier reads
\* the text of the current token and consumes it as an identifier
parseOperator(t) ==
    operatorParsed(tokenConsumed(t, exprSymbolIdentifier), t.token.Text)

stepParseOperator(t) == recover(parseOperator(ensureToken(t)))

\* parseTerm: consumeToken(exprSymbolComma) after the operator
pathStarted(t) == IF Panicked(t) THEN t ELSE [ t EXCEPT !.path = << >>, !.pc = "parsePath" ]

stepConsumeComma(t) == recover(pathStarted(consumeToken(t, exprSymbolComma)))

\* parsePath after the segment is appended, on a task whose token is ensured
pathContinued(t) ==
    IF Panicked(t) THEN t
    ELSE IF checkToken(t, exprSymbolSlash) THEN fetchToken(t)
    ELSE IF checkToken(t, exprSymbolComma) THEN [ t EXCEPT !.pc = "setValuesMode" ]
    ELSE panic(t, UnexpectedToken(t.token.Text, "slash or comma"))

\* segmentAppended with the segment put in front of the others
segmentAppended_Prepend(t, segment) ==
    IF Panicked(t) THEN t ELSE [ t EXCEPT !.path = << segment >> \o @ ]

\* segments = append(segments, segment)
segmentAppended(t, segment) ==
    IF Panicked(t) THEN t ELSE [ t EXCEPT !.path = Append(@, segment) ]

\* parsePath that takes a ',' in place of the first segment for an empty path
parsePath_Optional(t) ==
    IF ~Panicked(t) /\ t.token.Symbol = exprSymbolComma
    THEN [ t EXCEPT !.pc = "setValuesMode" ]
    ELSE pathContinued(ensureToken(
             segmentAppended(tokenConsumed(t, exprSymbolIdentifier), t.token.Text)))

\* parsePath: one iteration of its loop, on a task whose token is ensured
parsePath(t) ==
    pathContinued(ensureToken(
        segmentAppended(tokenConsumed(t, exprSymbolIdentifier), t.token.Text)))

stepParsePath(t) == recover(parsePath(ensureToken(t)))

\* parseTerm: consumeToken(exprSymbolComma) after the path, then
\* SetMode(exprValuesMode)
valuesModeSet(t) ==
    IF Panicked(t) THEN t
    ELSE [ t EXCEPT !.mode = exprValuesMode, !.pc = "parseOptionalValues" ]

stepSetValuesMode(t) == recover(valuesModeSet(consumeToken(t, exprSymbolComma)))

\* parseOptionalValues that demands a value
parseOptionalValues_Required(t) ==
    IF Panicked(t) THEN t
    ELSE IF t.token.Symbol = exprSymbolString
         THEN [ t EXCEPT !.values = << >>, !.pc = "parseValues" ]
    ELSE panic(t, UnexpectedToken(t.token.Text, "value"))

\* parseOptionalValues, on a task whose token is ensured
parseOptionalValues(t) ==
    IF Panicked(t) THEN t
    ELSE IF checkToken(t, exprSymbolRightParenthesis)
         THEN [ t EXCEPT !.values = << >>, !.pc = "setDefaultMode" ]
    ELSE IF checkToken(t, exprSymbolString)
         THEN [ t EXCEPT !.values = << >>, !.pc = "parseValues" ]
    ELSE panic(t, UnexpectedToken(t.token.Text, "value or right parenthesis"))

stepParseOptionalValues(t) == recover(parseOptionalValues(ensureToken(t)))

\* parseValues after the value is appended, on a task whose token is ensured
valuesContinued(t) ==
    IF Panicked(t) THEN t
    ELSE IF checkToken(t, exprSymbolComma) THEN fetchToken(t)
    ELSE IF checkToken(t, exprSymbolRightParenthesis)
         THEN [ t EXCEPT !.pc = "setDefaultMode" ]
    ELSE panic(t, UnexpectedToken(t.token.Text, "comma or right parenthesis"))

\* valueAppended with the value put in front of the others
valueAppended_Prepend(t, value) ==
    IF Panicked(t) THEN t ELSE [ t EXCEPT !.values = << value >> \o @ ]

\* values = append(values, value)
valueAppended(t, value) ==
    IF Panicked(t) THEN t ELSE [ t EXCEPT !.values = Append(@, value) ]

\* parseValues: one iteration of its loop, with its parseValue, on a task
\* whose token is ensured
parseValues(t) ==
    valuesContinued(ensureToken(
        valueAppended(tokenConsumed(t, exprSymbolString), t.token.Text)))

stepParseValues(t) == recover(parseValues(ensureToken(t)))

\* the return of parseTerm: the Term, which parseExpr appends to its terms
termAppended(t) ==
    IF Panicked(t) THEN t
    ELSE [ t EXCEPT !.terms = Append(@, Term(t.operator, t.path, t.values)),
                    !.pc = "parseExpr" ]

\* parseTerm that leaves the lexer in values mode after the values
stepSetDefaultMode_KeepMode(t) ==
    recover(termAppended(consumeToken(t, exprSymbolRightParenthesis)))

\* parseTerm: SetMode(exprDefaultMode), consumeToken(exprSymbolRightParenthesis)
stepSetDefaultMode(t) ==
    recover(termAppended(consumeToken([ t EXCEPT !.mode = exprDefaultMode ],
                                      exprSymbolRightParenthesis)))

\* the task after a ';': done when the input ends there
afterSemicolon_Lenient(t) ==
    IF Panicked(t) THEN t
    ELSE IF t.token.Symbol = exprSymbolEnd
         THEN [ t EXCEPT !.expr = Expr(t.terms), !.pc = "done" ]
    ELSE [ t EXCEPT !.pc = "parseTerm" ]

\* parseExpr that lets the text end with a ';'
parseExpr_TrailingSemicolon(t) ==
    IF Panicked(t) THEN t
    ELSE IF t.token.Symbol = exprSymbolSemicolon
         THEN afterSemicolon_Lenient(fetchToken(t))
    ELSE IF t.token.Symbol = exprSymbolEnd
         THEN [ t EXCEPT !.expr = Expr(t.terms), !.pc = "done" ]
    ELSE panic(t, UnexpectedToken(TokenString(t.token), "semicolon or end of input"))

\* parseExpr after a term, on a task whose token is ensured: the end of one
\* iteration of its loop, and its return to Parse
parseExpr(t) ==
    IF Panicked(t) THEN t
    ELSE IF checkToken(t, exprSymbolSemicolon) THEN goto(fetchToken(t), "parseTerm")
    ELSE IF checkToken(t, exprSymbolEnd)
         THEN [ t EXCEPT !.expr = Expr(t.terms), !.pc = "done" ]
    ELSE panic(t, UnexpectedToken(TokenString(t.token), "semicolon or end of input"))

stepParseExpr(t) == recover(parseExpr(ensureToken(t)))

\* the step of a task at its position
Step(t) ==
    CASE t.pc = "Parse"               -> stepParse(t)
      [] t.pc = "parseTerm"           -> stepParseTerm(t)
      [] t.pc = "parseOperator"       -> stepParseOperator(t)
      [] t.pc = "consumeComma"        -> stepConsumeComma(t)
      [] t.pc = "parsePath"           -> stepParsePath(t)
      [] t.pc = "setValuesMode"       -> stepSetValuesMode(t)
      [] t.pc = "parseOptionalValues" -> stepParseOptionalValues(t)
      [] t.pc = "parseValues"         -> stepParseValues(t)
      [] t.pc = "setDefaultMode"      -> stepSetDefaultMode(t)
      [] t.pc = "parseExpr"           -> stepParseExpr(t)

RECURSIVE Run(_)
Run(t) == IF t.pc = "done" THEN t ELSE Run(Step(t))

\* what Parse returns
Result(t) == [ expr |-> t.expr, err |-> t.err ]

\* Parser.Parse as a function of the text
Parse(src) == Result(Run(NewTask(src)))

\* ------------------------------------------------------------------------
\* Serializer
\* ------------------------------------------------------------------------

RECURSIVE Concat(_)
Concat(ss) == IF ss = << >> THEN << >> ELSE Head(ss) \o Concat(Tail(ss))

RECURSIVE Join(_, _)
Join(ss, sep) ==
    IF ss = << >> THEN << >>
    ELSE IF Len(ss) = 1 THEN ss[1]
    ELSE ss[1] \o sep \o Join(Tail(ss), sep)

\* the canonical lowercase lexeme of an operator
OperatorLexeme(op) ==
    CASE op = Cont  -> << "c","o","n","t" >>
      [] op = Eq    -> << "e","q" >>
      [] op = Gt    -> << "g","t" >>
      [] op = Gte   -> << "g","t","e" >>
      [] op = In    -> << "i","n" >>
      [] op = Lt    -> << "l","t" >>
      [] op = Lte   -> << "l","t","e" >>
      [] op = Ncont -> << "n","c","o","n","t" >>
      [] op = Neq   -> << "n","e","q" >>
      [] op = Nin   -> << "n","i","n" >>

\* an escape that leaves @ as it is
EscapeRune_PlainAt(r) ==
    CASE r = "~" -> << "~", "0" >>
      [] r = "/" -> << "~", "1" >>
      [] r = "," -> << "~", "a" >>
      [] OTHER   -> << r >>

\* the escape of one character of a path segment
EscapeRune(r) ==
    CASE r = "~" -> << "~", "0" >>
      [] r = "/" -> << "~", "1" >>
      [] r = "," -> << "~", "a" >>
      [] r = "@" -> << "~", "b" >>
      [] OTHER   -> << r >>

\* a path segment as it is emitted
EscapeSegment(segment) ==
    IF segment = << "@","k","e","y" >>
    THEN segment
    ELSE Concat([ i \in DOMAIN segment |-> EscapeRune(segment[i]) ])

\* a value as it is emitted: in single quotes, its quotes doubled
QuoteValue(value) ==
    << "'" >>
    \o Concat([ i \in DOMAIN value |->
                  IF value[i] = "'" THEN << "'", "'" >> ELSE << value[i] >> ])
    \o << "'" >>

\* Term.String with a blank after each comma between the parts of the term
TermString_Spaced(term) ==
    << "(" >> \o OperatorLexeme(term.Operator) \o << ",", " " >>
    \o Join([ i \in DOMAIN term.Path |-> EscapeSegment(term.Path[i]) ], << "/" >>)
    \o << ",", " " >>
    \o Join([ i \in DOMAIN term.Values |-> QuoteValue(term.Values[i]) ], << "," >>)
    \o << ")" >>

\* Term.String
TermString(term) ==
    << "(" >> \o OperatorLexeme(term.Operator) \o << "," >>
    \o Join([ i \in DOMAIN term.Path |-> EscapeSegment(term.Path[i]) ], << "/" >>)
    \o << "," >>
    \o Join([ i \in DOMAIN term.Values |-> QuoteValue(term.Values[i]) ], << "," >>)
    \o << ")" >>

\* Expr.String
ExprString(e) ==
    Join([ i \in DOMAIN e.Terms |-> TermString(e.Terms[i]) ], << ";" >>)

\* ------------------------------------------------------------------------
\* Input texts
\* ------------------------------------------------------------------------

MaxTerms    == 2
MaxSegments == 2
MaxValues   == 2

\* the sequences over S of a length from lo to hi
SeqsOf(S, lo, hi) == UNION { [ 1..n -> S ] : n \in lo..hi }

\* the text of one term, from the texts of its parts
TermText(op, segments, vals) ==
    << "(" >> \o op \o << "," >> \o Join(segments, << "/" >>) \o << "," >>
    \o Join(vals, << "," >>) \o << ")" >>

\* the ten lexemes of the operator table
OperatorLexemes ==
    { << "c","o","n","t" >>, << "e","q" >>, << "g","t" >>, << "g","t","e" >>,
      << "i","n" >>, << "l","t" >>, << "l","t","e" >>,
      << "n","c","o","n","t" >>, << "n","e","q" >>, << "n","i","n" >> }

ToUpperRune(r) ==
    IF r \in Range(Lower)
    THEN Upper[CHOOSE i \in DOMAIN Lower : Lower[i] = r]
    ELSE r

\* a lexeme in every mix of upper and lower case
CaseVariants(lexeme) ==
    { [ i \in DOMAIN lexeme |-> IF i \in U THEN ToUpperRune(lexeme[i]) ELSE lexeme[i] ] :
        U \in SUBSET DOMAIN lexeme }

OperatorVariants == UNION { CaseVariants(l) : l \in OperatorLexemes }

\* identifiers that are not operators
UnknownNames ==
    { << "f","o","o" >>, << "F","o","O" >>, << "e" >>, << "E","Q","Q" >>,
      << "l","t","e","q" >>, << "L","T","_" >>, << "e","q","1" >> }

SegmentTexts ==
    { << "a" >>, << "b","1" >>, << "_","x" >>, << "~","0","a" >>,
      << "a","~","1","b" >>, << "N","~","a","_" >> }

ValueTexts ==
    { << "'","x","'" >>, << "'","'" >>, << "'","y"," ","z","'" >>,
      << "'","i","t","'","'","s","'" >>, << "'",";",",","/","(",")","'" >> }

PlainValues == { << "'","x","'" >> }

\* one term, every spelling of an operator, every number of values
OperatorInputs ==
    { TermText(op, << << "a" >> >>, vals) :
        op \in OperatorVariants \cup UnknownNames,
        vals \in SeqsOf(PlainValues, 0, MaxValues) }

\* one term, every path
PathInputs ==
    { TermText(<< "e","q" >>, segments, << << "'","x","'" >> >>) :
        segments \in SeqsOf(SegmentTexts, 1, MaxSegments) }

\* one term, every list of values
ValueInputs ==
    { TermText(<< "i","n" >>, << << "a" >> >>, vals) :
        vals \in SeqsOf(ValueTexts, 0, MaxValues) }

TermTexts ==
    { TermText(<< "e","q" >>, << << "a" >> >>, << << "'","x","'" >> >>),
      TermText(<< "L","t","e" >>, << << "b" >>, << "c" >> >>, << >>),
      TermText(<< "n","i","n" >>, << << "d" >> >>, << << "'","y","'" >>, << "'","z","'" >> >>) }

\* several terms
TermsInputs == { Join(ts, << ";" >>) : ts \in SeqsOf(TermTexts, 1, MaxTerms) }

\* the texts that are mutated, and the characters put into them
BaseTexts ==
    { Join(<< TermText(<< "l","t","e" >>, << << "a" >>, << "b","~","0","c" >> >>,
                       << << "'","x","'" >>, << "'","y"," ","z","'" >> >>),
              TermText(<< "i","n" >>, << << "c" >> >>, << >>) >>, << ";" >>) }

MutationRunes ==
    { "(", ")", ",", ";", "/", "~", "'", " ", "a", "0", "@", "Q", NUL }

Deletions(src) ==
    { SubSeq(src, 1, i - 1) \o SubSeq(src, i + 1, Len(src)) : i \in 1..Len(src) }

Insertions(src) ==
    { SubSeq(src, 1, i) \o << r >> \o SubSeq(src, i + 1, Len(src)) :
        i \in 0..Len(src), r \in MutationRunes }

Replacements(src) ==
    { [ src EXCEPT ![i] = r ] : i \in 1..Len(src), r \in MutationRunes }

\* texts one character away from a well-formed one
MutatedInputs ==
    UNION { Deletions(b) \cup Insertions(b) \cup Replacements(b) : b \in BaseTexts }

SpecialInputs == { << >>, << " " >>, << ";" >>, << "(" >> }

Inputs ==
    OperatorInputs \cup PathInputs \cup ValueInputs \cup TermsInputs
    \cup MutatedInputs \cup SpecialInputs

\* ------------------------------------------------------------------------
\* One call of Parser.Parse
\* ------------------------------------------------------------------------

\* text .. fetched are the parseTask of the call; tasks are the parseTasks
\* of the calls that run side by side on one Parser
VARIABLES text, pos, mode, token, pc, terms, operator, path, values,
          expr, err, fetched, tasks

vars == << text, pos, mode, token, pc, terms, operator, path, values,
           expr, err, fetched, tasks >>

\* the parseTask in the current state
task ==
    [ text     |-> text,
      pos      |-> pos,
      mode     |-> mode,
      token    |-> token,
      pc       |-> pc,
      terms    |-> terms,
      operator |-> operator,
      path     |-> path,
      values   |-> values,
      expr     |-> expr,
      err      |-> err,
      fault    |-> NoError,
      fetched  |-> fetched ]

\* the next state is the task t
Becomes(t) ==
    /\ text' = t.text
    /\ pos' = t.pos
    /\ mode' = t.mode
    /\ token' = t.token
    /\ pc' = t.pc
    /\ terms' = t.terms
    /\ operator' = t.operator
    /\ path' = t.path
    /\ values' = t.values
    /\ expr' = t.expr
    /\ err' = t.err
    /\ fetched' = t.fetched
    /\ UNCHANGED tasks

Init ==
    \E src \in Inputs :
        LET t == NewTask(src)
        IN  /\ text = t.text
            /\ pos = t.pos
            /\ mode = t.mode
            /\ token = t.token
            /\ pc = t.pc
            /\ terms = t.terms
            /\ operator = t.operator
            /\ path = t.path
            /\ values = t.values
            /\ expr = t.expr
            /\ err = t.err
            /\ fetched = t.fetched
            /\ tasks = << >>

ParseStart == pc = "Parse" /\ Becomes(stepParse(task))

ParseTerm == pc = "parseTerm" /\ Becomes(stepParseTerm(task))

ParseOperator == pc = "parseOperator" /\ Becomes(stepParseOperator(task))

ConsumeComma == pc = "consumeComma" /\ Becomes(stepConsumeComma(task))

ParsePath == pc = "parsePath" /\ Becomes(stepParsePath(task))

SetValuesMode == pc = "setValuesMode" /\ Becomes(stepSetValuesMode(task))

ParseOptionalValues ==
    pc = "parseOptionalValues" /\ Becomes(stepParseOptionalValues(task))

ParseValues == pc = "parseValues" /\ Becomes(stepParseValues(task))

SetDefaultMode == pc = "setDefaultMode" /\ Becomes(stepSetDefaultMode(task))

ParseExpr == pc = "parseExpr" /\ Becomes(stepParseExpr(task))

Next ==
    \/ ParseStart
    \/ ParseTerm
    \/ ParseOperator
    \/ ConsumeComma
    \/ ParsePath
    \/ SetValuesMode
    \/ ParseOptionalValues
    \/ ParseValues
    \/ SetDefaultMode
    \/ ParseExpr

Spec == Init /\ [][Next]_vars

\* ------------------------------------------------------------------------
\* Properties
\* ------------------------------------------------------------------------

Done == pc = "done"

\* what the call has returned
Returned == [ expr |-> expr, err |-> err ]

Succeeded == Done /\ ~expr.nil

Failed == Done /\ expr.nil

LastFetched == fetched[Len(fetched)].token

\* the symbols of the tokens delivered so far
SymbolAt(i) == fetched[i].token.Symbol

\* C1: the canonical text of every Expr that Parse returns parses again,
\* without error, to the same Expr.
C1_RoundTrip ==
    Succeeded => Parse(ExprString(expr)) = [ expr |-> expr, err |-> NoError ]

\* an Expr of two terms, with escaped characters in a path and with values,
\* has been returned
C1_Witness ==
    /\ Succeeded
    /\ Len(expr.Terms) = 2
    /\ \E i \in DOMAIN expr.Terms[1].Path : "~" \in Range(expr.Terms[1].Path[i])
    /\ Len(expr.Terms[1].Path) = 2
    /\ Len(expr.Terms[1].Values) = 2

\* the operator that has the name of a lexeme
SameNameOperator(lexeme) ==
    CASE lexeme = << "c","o","n","t" >>     -> Cont
      [] lexeme = << "e","q" >>             -> Eq
      [] lexeme = << "g","t" >>             -> Gt
      [] lexeme = << "g","t","e" >>         -> Gte
      [] lexeme = << "i","n" >>             -> In
      [] lexeme = << "l","t" >>             -> Lt
      [] lexeme = << "l","t","e" >>         -> Lte
      [] lexeme = << "n","c","o","n","t" >> -> Ncont
      [] lexeme = << "n","e","q" >>         -> Neq
      [] lexeme = << "n","i","n" >>         -> Nin

\* C2: once parseOperator has returned, the operator is the one with the
\* name of the lexeme in operator position (lte gives Lte), so two lexemes
\* never give one operator.
C2_SameName ==
    pc = "consumeComma" => operator = SameNameOperator(ToLower(LastFetched.Text))

\* C3: a term whose operator is written in any mix of upper and lower case
\* parses to what the term with the lowercase lexeme parses to.
C3_CaseInsensitive ==
    Done =>
        \A lexeme \in OperatorLexemes :
            \A variant \in CaseVariants(lexeme) :
                \A vals \in SeqsOf(PlainValues, 0, MaxValues) :
                    text = TermText(variant, << << "a" >> >>, vals)
                    => Returned = Parse(TermText(lexeme, << << "a" >> >>, vals))

\* a term written with a mixed-case operator has been parsed to an Expr
C3_Witness ==
    /\ Succeeded
    /\ text = TermText(<< "N","c","O","n","T" >>, << << "a" >> >>, << << "'","x","'" >> >>)
    /\ expr.Terms[1].Operator = Ncont

\* C4: an identifier in operator position that is, in lower case, none of
\* the ten lexemes makes Parse return the error "unknown operator" with the
\* identifier in the case it was written in, and no Expr.
C4_UnknownOperator ==
    /\ ( /\ Done
         /\ Len(fetched) >= 2
         /\ SymbolAt(Len(fetched)) = exprSymbolIdentifier
         /\ SymbolAt(Len(fetched) - 1) = exprSymbolLeftParenthesis
         /\ ToLower(LastFetched.Text) \notin OperatorLexemes )
       => /\ err = UnknownOperator(LastFetched.Text)
          /\ expr = NilExpr
    /\ Done =>
         \A name \in UnknownNames :
             \A vals \in SeqsOf(PlainValues, 0, MaxValues) :
                 text = TermText(name, << << "a" >> >>, vals)
                 => /\ err = UnknownOperator(name)
                    /\ expr = NilExpr

\* the error for an unknown operator written in mixed case has been returned
C4_Witness ==
    /\ Failed
    /\ err = UnknownOperator(<< "F","o","O" >>)

\* the error FetchToken returns next
NextLexicalError == FetchToken(text, pos, mode).err

C5_ExactlyOne ==
    /\ ~Done => (expr = NilExpr /\ err = NoError)
    /\ Done => (expr.nil <=> err # NoError)
    /\ Succeeded => /\ expr.Terms = terms
                    /\ Len(fetched) >= 1
                    /\ LastFetched.Symbol = exprSymbolEnd

C5_ErrorSurfaces ==
    /\ (pc = "Parse" /\ text = << >>)
       => (pc' = "done" /\ err' = SourceIsMandatory /\ expr' = NilExpr)
    /\ (pc \notin {"Parse", "done"} /\ token = NilToken /\ NextLexicalError # NoError)
       => (pc' = "done" /\ err' = NextLexicalError /\ expr' = NilExpr)

\* C5: Parse returns an Expr or an error and never both nor neither; an
\* error of the lexer's construction, a lexical error and a panic at any
\* depth end the call with that error and a nil Expr.
C5_NoPartialAst == [] C5_ExactlyOne /\ [][C5_ErrorSurfaces]_vars

\* a lexical error inside the second term has been returned, with no Expr
\* although a first term was parsed
C5_Witness ==
    /\ Failed
    /\ err.msg = "unknown escape sequence"
    /\ Len(terms) = 1

\* The grammar, on a sequence f of delivered tokens:
\*   Expr := Term (';' Term)* End
\*   Term := '(' Identifier ',' Identifier ('/' Identifier)* ','
\*           [String (',' String)*] ')'

\* the symbols of f from index lo to hi alternate between item and
\* separator, beginning and ending with item
Alternates(f, lo, hi, item, separator) ==
    /\ hi >= lo
    /\ (hi - lo) % 2 = 0
    /\ \A i \in lo..hi :
         f[i].token.Symbol = (IF (i - lo) % 2 = 0 THEN item ELSE separator)

\* the tokens of f from index lo to hi are one term
IsTerm(f, lo, hi) ==
    /\ hi - lo >= 5
    /\ f[lo].token.Symbol = exprSymbolLeftParenthesis
    /\ f[lo + 1].token.Symbol = exprSymbolIdentifier
    /\ ToLower(f[lo + 1].token.Text) \in OperatorLexemes
    /\ f[lo + 2].token.Symbol = exprSymbolComma
    /\ f[hi].token.Symbol = exprSymbolRightParenthesis
    /\ \E k \in (lo + 4)..(hi - 1) :
         /\ f[k].token.Symbol = exprSymbolComma
         /\ Alternates(f, lo + 3, k - 1, exprSymbolIdentifier, exprSymbolSlash)
         /\ \/ k + 1 = hi
            \/ Alternates(f, k + 1, hi - 1, exprSymbolString, exprSymbolComma)

\* the indexes that end a term of f: its semicolons and its last token
Separators(f) ==
    { i \in DOMAIN f : f[i].token.Symbol = exprSymbolSemicolon } \cup { Len(f) }

\* the index after the separator before index i
TermStart(f, i) ==
    IF \E j \in Separators(f) : j < i
    THEN 1 + CHOOSE j \in Separators(f) :
                 j < i /\ \A k \in Separators(f) : k < i => k <= j
    ELSE 1

\* f is a sentence of the grammar
IsExpr(f) ==
    /\ Len(f) >= 1
    /\ f[Len(f)].token.Symbol = exprSymbolEnd
    /\ \A i \in Separators(f) : IsTerm(f, TermStart(f, i), i - 1)

\* C6: Parse returns an Expr exactly when the tokens the lexer delivered
\* are a sentence of the grammar; a ';' followed by the end of the input
\* or by another ';' makes it return an error.
C6_AcceptsGrammar ==
    Done =>
      /\ ~expr.nil <=> IsExpr(fetched)
      /\ \A i \in DOMAIN fetched :
           ( /\ SymbolAt(i) = exprSymbolSemicolon
             /\ i < Len(fetched)
             /\ SymbolAt(i + 1) \in { exprSymbolSemicolon, exprSymbolEnd } )
           => (expr = NilExpr /\ err # NoError)

\* a text that ends with ';' after two whole terms has been rejected
C6_Witness ==
    /\ Failed
    /\ Len(terms) = 2
    /\ Len(fetched) >= 2
    /\ SymbolAt(Len(fetched)) = exprSymbolEnd
    /\ SymbolAt(Len(fetched) - 1) = exprSymbolSemicolon

\* C7: a term of any operator with no value, one value or several values
\* is accepted, with as many values as were written; a ')' right after the
\* second comma gives the term an empty list of values.
C7_NoArity ==
    /\ Done =>
         \A op \in OperatorVariants :
             \A vals \in SeqsOf(PlainValues, 0, MaxValues) :
                 text = TermText(op, << << "a" >> >>, vals)
                 => /\ err = NoError
                    /\ Len(expr.Terms) = 1
                    /\ Len(expr.Terms[1].Values) = Len(vals)
    /\ ( /\ pc \in { "setDefaultMode", "parseExpr" }
         /\ token.Symbol \in { exprSymbolRightParenthesis, "Nil" }
         /\ SymbolAt(Len(fetched)) = exprSymbolRightParenthesis
         /\ SymbolAt(Len(fetched) - 1) = exprSymbolComma
         /\ fetched[Len(fetched) - 1].mode = exprDefaultMode )
       => /\ values = << >>
          /\ pc = "parseExpr" => terms[Len(terms)].Values = << >>

\* a term of a set operator with no value has been accepted
C7_Witness ==
    /\ Succeeded
    /\ text = TermText(<< "n","i","n" >>, << << "a" >> >>, << >>)
    /\ expr.Terms[1].Values = << >>

IsIdentifierToken(x) == x.token.Symbol = exprSymbolIdentifier

IsStringToken(x) == x.token.Symbol = exprSymbolString

TextsOf(f) == [ i \in DOMAIN f |-> f[i].token.Text ]

\* the index in f of the n-th token with the symbol
NthIndex(f, symbol, n) ==
    CHOOSE i \in DOMAIN f :
        /\ f[i].token.Symbol = symbol
        /\ Cardinality({ j \in 1..(i - 1) : f[j].token.Symbol = symbol }) = n - 1

CountOf(f, symbol) == Cardinality({ i \in DOMAIN f : f[i].token.Symbol = symbol })

\* the tokens of the n-th parenthesised term of f
NthTermTokens(f, n) ==
    SubSeq(f, NthIndex(f, exprSymbolLeftParenthesis, n),
              NthIndex(f, exprSymbolRightParenthesis, n))

\* C8: the i-th Term of a returned Expr has the identifiers of the path of
\* the i-th parenthesised term as its segments and the strings of that term
\* as its values, all of them, once each and in their order.
C8_OrderPreserved ==
    Succeeded =>
      /\ Len(expr.Terms) = CountOf(fetched, exprSymbolLeftParenthesis)
      /\ \A i \in DOMAIN expr.Terms :
           /\ expr.Terms[i].Path =
                Tail(TextsOf(SelectSeq(NthTermTokens(fetched, i), IsIdentifierToken)))
           /\ expr.Terms[i].Values =
                TextsOf(SelectSeq(NthTermTokens(fetched, i), IsStringToken))

\* an Expr of two terms has been returned, one of them with two different
\* segments and two different values
C8_Witness ==
    /\ Succeeded
    /\ Len(expr.Terms) = 2
    /\ expr.Terms[1] # expr.Terms[2]
    /\ Len(expr.Terms[1].Path) = 2
    /\ expr.Terms[1].Path[1] # expr.Terms[1].Path[2]
    /\ Len(expr.Terms[1].Values) = 2
    /\ expr.Terms[1].Values[1] # expr.Terms[1].Values[2]

\* C9: an Expr that Parse returns has a term, and each of its terms has a
\* path segment.
C9_NonEmpty ==
    ~expr.nil =>
      /\ Len(expr.Terms) >= 1
      /\ \A i \in DOMAIN expr.Terms : Len(expr.Terms[i].Path) >= 1

\* an Expr has been returned for a text with a single one-segment term
C9_Witness ==
    /\ Succeeded
    /\ Len(expr.Terms) = 1
    /\ Len(expr.Terms[1].Path) = 1

\* C10 as stated: Parse of the empty text returns the parse error "expected
\* operator or left parenthesis" and no Expr.
C10_ExpectedOperatorError ==
    (Done /\ text = << >>)
    => /\ err.msg = "expected operator or left parenthesis"
       /\ expr = NilExpr

\* C10: Parse of the empty text returns the error "source is mandatory" of
\* the lexer's construction and no Expr, and fetches no token.
C10_EmptySource ==
    (Done /\ text = << >>)
    => /\ err = SourceIsMandatory
       /\ expr = NilExpr
       /\ fetched = << >>

\* Parse of the empty text has returned
C10_Witness == Done /\ text = << >> /\ err # NoError

\* ------------------------------------------------------------------------
\* The lexer of the selector package, called by itself
\* ------------------------------------------------------------------------

\* the longest text given to the lexer, and the most calls of FetchToken
MaxLexLen  == 4
MaxFetches == 6

\* the runes of the texts given to the lexer
LexRunes == { "a", "b", "0", "1", "~", ",", "/", " ", NUL }

\* texts with the runes of a dictionary key
LexKeyInputs ==
    { << "@","k","e","y" >>,
      << "a","/","@","k","e","y" >>,
      << "a","~","b","k" >> }

\* exprLexerBuilder.Build refuses the empty source: a lexer has a text
LexInputs == SeqsOf(LexRunes, 1, MaxLexLen) \cup LexKeyInputs

\* the record of one call of FetchToken: what it returned, the mode, and the
\* offsets of the buffer before and after the call
Call(f, m, from) ==
    [ token |-> f.token, mode |-> m, err |-> f.err, from |-> from,
      to |-> f.pos ]

\* the lexer after a call of FetchToken that returned f
Returns(f) ==
    /\ pos' = f.pos
    /\ token' = f.token
    /\ err' = f.err
    /\ fetched' = Append(fetched, Call(f, mode, pos))
    /\ UNCHANGED << text, mode, pc, terms, operator, path, values, expr,
                    tasks >>

LexInit ==
    \E src \in LexInputs :
        /\ text = src
        /\ pos = 1
        /\ mode = exprDefaultMode
        /\ token = NilToken
        /\ pc = "FetchToken"
        /\ terms = << >>
        /\ operator = ""
        /\ path = << >>
        /\ values = << >>
        /\ expr = NilExpr
        /\ err = NoError
        /\ fetched = << >>
        /\ tasks = << >>

LexFetchToken ==
    /\ pc = "FetchToken"
    /\ Len(fetched) < MaxFetches
    /\ Returns(FetchToken(text, pos, mode))

LexNext == LexFetchToken

LexSpec == LexInit /\ [][LexNext]_vars

\* the buffer of the lexer is exhausted
Exhausted == pos > Len(text)

\* the last call of FetchToken returned End
EndReturned ==
    /\ Len(fetched) >= 1
    /\ LastFetched.Symbol = exprSymbolEnd
    /\ err = NoError

\* C11: once FetchToken has returned End with the buffer exhausted, every
\* later call returns End again, without error, and reads nothing.
C11_EndIdempotent ==
    [][ (EndReturned /\ Exhausted)
        => /\ token' = exprToken(exprSymbolEnd, << >>)
           /\ err' = NoError
           /\ pos' = pos ]_vars

\* FetchToken has returned an identifier and then End three times
C11_Witness ==
    /\ Len(fetched) = 4
    /\ SymbolAt(1) = exprSymbolIdentifier
    /\ \A i \in 2..4 : SymbolAt(i) = exprSymbolEnd /\ fetched[i].err = NoError
    /\ Exhausted

\* the character that an escape contributes, as the specification lists them
Decoded(x) ==
    CASE x = "0" -> "~"
      [] x = "1" -> "/"
      [] x = "a" -> ","
      [] x = "b" -> "@"

\* C12: in default mode the lexer accepts each of the four escapes ~0, ~1,
\* ~a and ~b inside an identifier, and the escape contributes ~, /, , and @
\* to the text of the Identifier token.
C12_FourEscapes ==
    \A x \in { "0", "1", "a", "b" } :
        (text = << "a", "~", x, "b" >> /\ Len(fetched) >= 1)
        => /\ fetched[1].err = NoError
           /\ fetched[1].token =
                  exprToken(exprSymbolIdentifier, << "a", Decoded(x), "b" >>)

\* the characters that may follow ~ in an escape
EscapeAlphabet == { "0", "1", "a", "b" }

\* the rune that the lexer reads after offset k: the rune 0 at the end
RuneAfter(k) == IF k >= Len(text) THEN NUL ELSE text[k + 1]

\* at offset k of the text there is a ~ that no character of the escape
\* alphabet follows
BrokenEscapeAt(k) == text[k] = "~" /\ RuneAfter(k) \notin EscapeAlphabet

\* C13: when a step of Parse reads, in default mode, a ~ followed by a
\* character outside the escape alphabet or by the end of the text, the
\* call ends with the error "unknown escape sequence" of FetchToken and
\* with no Expr.
C13_UnknownEscape ==
    [][ (mode = exprDefaultMode
         /\ \E k \in pos..(pos' - 1) : BrokenEscapeAt(k))
        => /\ pc' = "done"
           /\ expr' = NilExpr
           /\ err'.msg = "unknown escape sequence"
           /\ \E k \in pos..(pos' - 1) :
                  BrokenEscapeAt(k) /\ err' = UnknownEscape(RuneAfter(k)) ]_vars

\* Parse has returned the error of a ~ that the end of the text follows
C13_Witness ==
    /\ Failed
    /\ err = UnknownEscape(NUL)
    /\ text[Len(text)] = "~"
    /\ Exhausted

\* ------------------------------------------------------------------------
\* The canonical text of a selector
\* ------------------------------------------------------------------------

\* an entry of the table of the test "String representation": a selector
\* and the text expected of its String method
Entry(selector, expected) == [ selector |-> selector, expected |-> expected ]

\* the entries of the table, in its order
Entries ==
    << Entry(Expr(<< Term(Eq,
                   << << "m","y","a","t","t","r" >> >>,
                   << << "m","y","v","a","l","u","e" >> >>) >>),
          << "(","e","q",",","m","y","a","t","t","r",",","'","m","y",
             "v","a","l","u","e","'",")" >>),
       Entry(Expr(<< Term(Eq,
                   << << "m","y","~","a","t","t","r" >> >>,
                   << << "m","y","v","a","l","u","e" >> >>) >>),
          << "(","e","q",",","m","y","~","0","a","t","t","r",",","'",
             "m","y","v","a","l","u","e","'",")" >>),
       Entry(Expr(<< Term(Eq,
                   << << "m","y","/","a","t","t","r" >> >>,
                   << << "m","y","v","a","l","u","e" >> >>) >>),
          << "(","e","q",",","m","y","~","1","a","t","t","r",",","'",
             "m","y","v","a","l","u","e","'",")" >>),
       Entry(Expr(<< Term(Eq,
                   << << "m","y","@","a","t","t","r" >> >>,
                   << << "m","y","v","a","l","u","e" >> >>) >>),
          << "(","e","q",",","m","y","~","b","a","t","t","r",",","'",
             "m","y","v","a","l","u","e","'",")" >>),
       Entry(Expr(<< Term(Eq,
                   << << "m","y","d","i","c","t" >>,
                      << "@","k","e","y" >> >>,
                   << << "m","y","v","a","l","u","e" >> >>) >>),
          << "(","e","q",",","m","y","d","i","c","t","/","@","k","e",
             "y",",","'","m","y","v","a","l","u","e","'",")" >>),
       Entry(Expr(<< Term(Eq,
                   << << "m","y","a","t","t","r" >> >>,
                   << << "m","y","v","a","l","u","e" >> >>),
              Term(Neq,
                   << << "y","o","u","r","a","t","t","r" >> >>,
                   << << "y","o","u","r","v","a","l","u","e" >> >>) >>),
          << "(","e","q",",","m","y","a","t","t","r",",","'","m","y",
             "v","a","l","u","e","'",")",";","(","n","e","q",",","y",
             "o","u","r","a","t","t","r",",","'","y","o","u","r","v",
             "a","l","u","e","'",")" >>),
       Entry(Expr(<< Term(Eq,
                   << << "m","y","a","t","t","r" >>,
                      << "y","o","u","r","a","t","t","r" >> >>,
                   << << "y","o","u","r","v","a","l","u","e" >> >>) >>),
          << "(","e","q",",","m","y","a","t","t","r","/","y","o","u",
             "r","a","t","t","r",",","'","y","o","u","r","v","a","l",
             "u","e","'",")" >>),
       Entry(Expr(<< Term(In,
                   << << "m","y","a","t","t","r" >> >>,
                   << << "m","y","v","a","l","u","e" >>,
                      << "y","o","u","r","v","a","l","u","e" >> >>) >>),
          << "(","i","n",",","m","y","a","t","t","r",",","'","m","y",
             "v","a","l","u","e","'",",","'","y","o","u","r","v","a",
             "l","u","e","'",")" >>) >>

\* the entries "Escape ~ in path segment", "Escape / in path segment" and
\* "Escape @ in path segment"
EscapeEntries == { Entries[i] : i \in 2..4 }

\* the entry "Dont't escape @ in @key"
KeyEntry == Entries[5]

\* the entries "Single term", "Multiple terms", "Multiple path segments" and
\* "Multiple values"
FormatEntries == { Entries[1] } \cup { Entries[i] : i \in 6..8 }

\* the longest path segment whose characters are enumerated
MaxSegLen == 4

\* the characters of the enumerated path segments
SerRunes == { "a", "~", "/", ",", "@", "k", "e", "y" }

SerSegments == SeqsOf(SerRunes, 1, MaxSegLen)

AtKey == << "@","k","e","y" >>

Operators == { Cont, Eq, Gt, Gte, In, Lt, Lte, Ncont, Neq, Nin }

SerPaths == SeqsOf({ << "a" >>, << "b","@" >>, AtKey }, 1, MaxSegments)

SerValues ==
    SeqsOf({ << "x" >>, << "y"," ","z" >>, << "i","t","'","s" >> },
           0, MaxValues)

SerTerms ==
    SeqsOf({ Term(Eq, << << "a" >> >>, << << "x" >> >>),
             Term(Nin, << << "a" >>, << "b","@" >> >>, << >>),
             Term(Cont, << AtKey >>, << << "y"," ","z" >>, << "x" >> >>) },
           1, MaxTerms)

\* the selectors whose text is taken
SerInputs ==
    { Expr(<< Term(Eq, << s >>, << >>) >>) : s \in SerSegments }
    \cup { Expr(<< Term(op, << << "a" >> >>, << << "x" >> >>) >>) :
             op \in Operators }
    \cup { Expr(<< Term(Eq, p, << << "x" >> >>) >>) : p \in SerPaths }
    \cup { Expr(<< Term(In, << << "a" >> >>, v) >>) : v \in SerValues }
    \cup { Expr(ts) : ts \in SerTerms }
    \cup { Entries[i].selector : i \in DOMAIN Entries }

SerInit ==
    \E e \in SerInputs :
        /\ expr = e
        /\ text = << >>
        /\ pc = "String"
        /\ pos = 1
        /\ mode = exprDefaultMode
        /\ token = NilToken
        /\ terms = << >>
        /\ operator = ""
        /\ path = << >>
        /\ values = << >>
        /\ err = NoError
        /\ fetched = << >>
        /\ tasks = << >>

\* Selector.String
SelectorString ==
    /\ pc = "String"
    /\ text' = ExprString(expr)
    /\ pc' = "done"
    /\ UNCHANGED << pos, mode, token, terms, operator, path, values, expr,
                    err, fetched, tasks >>

SerNext == SelectorString

SerSpec == SerInit /\ [][SerNext]_vars

\* the characters that the serializer emits for the character c of a path
\* segment
Emitted(c) ==
    CASE c = "~" -> << "~", "0" >>
      [] c = "/" -> << "~", "1" >>
      [] c = "," -> << "~", "a" >>
      [] c = "@" -> << "~", "b" >>
      [] OTHER   -> << c >>

\* the emissions of the characters of a segment, one after the other
RECURSIVE Emission(_)
Emission(segment) ==
    IF segment = << >> THEN << >>
    ELSE Emitted(Head(segment)) \o Emission(Tail(segment))

\* the selector has one term, of operator eq, with the path p and no value
IsBareTerm(p) == expr = Expr(<< Term(Eq, p, << >>) >>)

\* C14: the text of a path segment other than @key is the emission of its
\* characters one by one: ~0 for ~, ~1 for /, ~a for the comma, ~b for @ and
\* every other character unchanged; the entries of the test table that
\* escape a segment have the text that the table expects.
C14_CharByChar ==
    /\ (Done /\ Len(expr.Terms) = 1 /\ Len(expr.Terms[1].Path) = 1
        /\ IsBareTerm(expr.Terms[1].Path) /\ expr.Terms[1].Path[1] # AtKey)
       => text = << "(","e","q","," >>
                 \o Emission(expr.Terms[1].Path[1]) \o << ",", ")" >>
    /\ \A e \in EscapeEntries : (Done /\ expr = e.selector) => text = e.expected

\* the text of a segment that holds the four escaped characters and another
\* one has been taken
C14_Witness ==
    /\ Done
    /\ IsBareTerm(<< << "~","/",",","@" >> >>)
    /\ text = << "(","e","q",",","~","0","~","1","~","a","~","b",",",")" >>

\* C15: the segment @key is emitted unescaped while @ in any other segment
\* is emitted as ~b, and the lexer accepts @key written verbatim in a path
\* and returns it as the Identifier @key.
C15_AtKeyBothWays ==
    /\ EscapeSegment(AtKey) = AtKey
    /\ EscapeSegment(<< "a","@" >>) = << "a","~","b" >>
    /\ (text = AtKey /\ Len(fetched) >= 1)
       => /\ fetched[1].err = NoError
          /\ fetched[1].token = exprToken(exprSymbolIdentifier, AtKey)
    /\ (text = << "a","/" >> \o AtKey /\ Len(fetched) >= 3)
       => /\ fetched[3].err = NoError
          /\ fetched[3].token = exprToken(exprSymbolIdentifier, AtKey)

\* the character at offset i of the text is outside the quoted values
Outside(i) ==
    /\ text[i] # "'"
    /\ Cardinality({ j \in 1..(i - 1) : text[j] = "'" }) % 2 = 0

\* the characters of the text, in order, that satisfy Keep
Kept(Keep(_)) ==
    LET idx == SelectSeq([ i \in 1..Len(text) |-> i ], Keep)
    IN  [ k \in DOMAIN idx |-> text[idx[k]] ]

\* the text without its quoted values, and the quoted values alone
Skeleton == Kept(Outside)

NotOutside(i) == ~Outside(i)

QuotedPart == Kept(NotOutside)

\* the lowercase lexeme that names an operator
LexemeNamed(op) == CHOOSE l \in OperatorLexemes : SameNameOperator(l) = op

SegmentText(segment) ==
    IF segment = AtKey THEN AtKey ELSE Emission(segment)

\* a term without its values: ( operator , segments joined by / , one comma
\* between each two values )
TermSkeleton(term) ==
    << "(" >> \o LexemeNamed(term.Operator) \o << "," >>
    \o Join([ i \in DOMAIN term.Path |-> SegmentText(term.Path[i]) ], << "/" >>)
    \o << "," >>
    \o [ k \in 1..(Len(term.Values) - 1) |-> "," ]
    \o << ")" >>

\* a value in single quotes, each quote of the value written twice
RECURSIVE Doubled(_)
Doubled(value) ==
    IF value = << >> THEN << >>
    ELSE (IF Head(value) = "'" THEN << "'", "'" >> ELSE << Head(value) >>)
         \o Doubled(Tail(value))

RECURSIVE QuotedValues(_)
QuotedValues(vs) ==
    IF vs = << >> THEN << >>
    ELSE << "'" >> \o Doubled(Head(vs)) \o << "'" >> \o QuotedValues(Tail(vs))

RECURSIVE AllValues(_)
AllValues(ts) ==
    IF ts = << >> THEN << >> ELSE Head(ts).Values \o AllValues(Tail(ts))

\* C16: the text of a selector whose segments hold no whitespace is its
\* terms in order joined by ;, each term being ( lowercase operator ,
\* segments joined by / , values in single quotes joined by , ), and holds
\* no whitespace outside the values; the entries of the test table for one
\* and several terms, segments and values have the text the table expects.
C16_CanonicalText ==
    /\ Done
       => /\ Skeleton =
                Join([ i \in DOMAIN expr.Terms |-> TermSkeleton(expr.Terms[i]) ],
                     << ";" >>)
          /\ QuotedPart = QuotedValues(AllValues(expr.Terms))
          /\ \A i \in DOMAIN text : Outside(i) => ~IsSpace(text[i])
    /\ \A e \in FormatEntries : (Done /\ expr = e.selector) => text = e.expected

\* the text of a selector of two terms, one with two segments and one with
\* two values, one of them with a blank, has been taken
C16_Witness ==
    /\ Done
    /\ Len(expr.Terms) = 2
    /\ Len(expr.Terms[1].Path) = 2
    /\ Len(expr.Terms[2].Values) = 2
    /\ \E i \in DOMAIN text : ~Outside(i) /\ text[i] = " "
    /\ \E i \in DOMAIN text : Outside(i) /\ text[i] = ";"

\* ------------------------------------------------------------------------
\* Calls of Parse that run side by side on one Parser
\* ------------------------------------------------------------------------

\* the texts of the calls: well formed ones, and ones that fail in the
\* lexer's construction, in the lexer and in the parser
ConcInputs ==
    { << >>,
      << "(","e","q",",","a",",","'","x","'",")" >>,
      << "(","i","n",",","a","/","b",",","'","x","'",",","'","y","'",")" >>,
      << "(","l","t",",","a",",",")",";","(","n","e","q",",","b",",",")" >>,
      << "(","e","q",",","a" >>,
      << "(","z","z",",","a",",",")" >>,
      << "(","e","q",",","a","~","q",",",")" >> }

\* Parse creates a parseTask of its own for each call
ConcInit ==
    /\ \E a \in ConcInputs :
           \E b \in ConcInputs \ { a } : tasks = << NewTask(a), NewTask(b) >>
    /\ text = << >>
    /\ pos = 1
    /\ mode = exprDefaultMode
    /\ token = NilToken
    /\ pc = "calls"
    /\ terms = << >>
    /\ operator = ""
    /\ path = << >>
    /\ values = << >>
    /\ expr = NilExpr
    /\ err = NoError
    /\ fetched = << >>

\* the parseTasks with a lookahead token that all the calls share, as if the
\* Parser held it
Interleaved_SharedToken(ts, i) ==
    [ j \in DOMAIN ts |->
        IF j = i THEN Step(ts[i])
        ELSE [ ts[j] EXCEPT !.token = Step(ts[i]).token ] ]

\* the parseTasks after call i has taken its next step: the step reads and
\* writes the parseTask of the call alone
Interleaved(ts, i) == [ ts EXCEPT ![i] = Step(ts[i]) ]

CallStep(i) ==
    /\ tasks[i].pc # "done"
    /\ tasks' = Interleaved(tasks, i)
    /\ UNCHANGED << text, pos, mode, token, pc, terms, operator, path,
                    values, expr, err, fetched >>

ConcNext == \E i \in DOMAIN tasks : CallStep(i)

ConcSpec == ConcInit /\ [][ConcNext]_vars

AfterSecondComma(i) ==
    \E j \in 1..(i - 1) :
        /\ SymbolAt(j) = exprSymbolLeftParenthesis
        /\ \A k \in (j + 1)..(i - 1) :
               SymbolAt(k) \notin { exprSymbolLeftParenthesis,
                                    exprSymbolRightParenthesis }
        /\ Cardinality({ k \in (j + 1)..(i - 1) :
                           SymbolAt(k) = exprSymbolComma }) >= 2

\* C18: each token is fetched in values mode if and only if it lies after
\* the second comma of a term, up to and including the closing ) of the
\* term; every other token, of the first and of the later terms, is fetched
\* in default mode.
C18_ModeFollowsTerm ==
    \A i \in DOMAIN fetched :
        fetched[i].mode = exprValuesMode <=> AfterSecondComma(i)

\* a second term has been read to its closing ), after a first term with
\* values and a ;
C18_Witness ==
    /\ Len(fetched) >= 2
    /\ Cardinality({ i \in DOMAIN fetched :
                       SymbolAt(i) = exprSymbolRightParenthesis }) = 2
    /\ \E i \in DOMAIN fetched :
           SymbolAt(i) = exprSymbolSemicolon /\ fetched[i].mode = exprDefaultMode
    /\ \E i \in DOMAIN fetched :
           SymbolAt(i) = exprSymbolString /\ fetched[i].mode = exprValuesMode
    /\ LastFetched.Symbol = exprSymbolEnd
    /\ fetched[Len(fetched)].mode = exprDefaultMode

\* the first offset from p on that holds no whitespace: past the end of the
\* text when only whitespace is left
FirstNonSpace(p) ==
    CHOOSE q \in p..(Len(text) + 1) :
        /\ q > Len(text) \/ ~IsSpace(text[q])
        /\ \A k \in p..(q - 1) : IsSpace(text[k])

\* a run of identifier characters starts at offset q
RunStartsAt(q) ==
    /\ q <= Len(text)
    /\ IsLetter(text[q]) \/ text[q] = "_" \/ text[q] = "~"

\* C19: a call of FetchToken that finds a run of letters, digits, _ and
\* escapes returns it as one Identifier, or an error, never Comma, Slash or
\* End, whatever follows the run; and the characters read for an Identifier
\* hold no whitespace after the start of the run.
C19_NothingLost ==
    \A i \in DOMAIN fetched :
        RunStartsAt(FirstNonSpace(fetched[i].from))
        => /\ \/ fetched[i].err # NoError
              \/ fetched[i].token.Symbol = exprSymbolIdentifier
           /\ fetched[i].err = NoError
              => \A k \in FirstNonSpace(fetched[i].from)..(fetched[i].to - 1) :
                     ~IsSpace(text[k])

\* C20: the lexer returns End only when every character of the text has
\* been read, whatever the characters are, a NUL included; so Parse returns
\* an Expr only for a text that it has read to its end.
C20_EndAtEnd ==
    /\ (Len(fetched) >= 1 /\ LastFetched.Symbol = exprSymbolEnd) => Exhausted
    /\ Succeeded => Exhausted

\* the characters of the text from offset p on
Remaining(p) == Len(text) - p + 1

\* a call of FetchToken at the offset of the buffer or at any later one, in
\* either mode, reads at most the remaining characters and once more
ReadsBounded ==
    \A p \in pos..(Len(text) + 1) :
        \A m \in { exprDefaultMode, exprValuesMode } :
            FetchToken(text, p, m).reads <= Remaining(p) + 1

\* what is left for the call to do: nothing once it has returned; before,
\* the tokens that may still be delivered, the lookahead token to consume,
\* and the construction of the lexer
Variant ==
    IF Done THEN 0
    ELSE 1 + 4 * (Len(text) + 1 - Len(fetched))
           + 2 * (IF token = NilToken THEN 0 ELSE 1)
           + (IF pc = "Parse" THEN 1 ELSE 0)

\* C21: every call of FetchToken returns after reading at most the
\* remaining characters plus one; the tokens delivered to Parse are at most
\* the characters of the text plus one; a call of Parse that has not
\* returned has a next step, and every step fetches a token, consumes the
\* lookahead token or returns, so that Parse returns after finitely many
\* steps and FetchToken calls.
C21_Terminates ==
    /\ [](/\ ReadsBounded
          /\ Len(fetched) <= Len(text) + 1
          /\ ~Done => Step(task) # task)
    /\ [][Variant' < Variant]_vars

\* Parse has returned after more than one iteration of its term, path and
\* value loops, and a call of FetchToken read the end of the buffer
C21_Witness ==
    /\ Succeeded
    /\ Len(expr.Terms) = 2
    /\ Len(expr.Terms[1].Path) = 2
    /\ Len(expr.Terms[1].Values) = 2
    /\ LastFetched.Symbol = exprSymbolEnd
    /\ Exhausted
    /\ FetchToken(text, pos, mode).reads = Remaining(pos) + 1

====
